---- MODULE Spec2Model ----
(***************************************************************************)
(* A model of reference/cwltool/workflow.py: the document normalizer and  *)
(* loader, the implicit-iteration wrapper BaseApp.run, CLTool._run, and    *)
(* the Workflow executor (graph construction, the ready-node scheduler,    *)
(* value composition and output projection); and of execjs of              *)
(* reference/cwltool/sandboxjs.py with its Timer thread.                   *)
(***************************************************************************)
EXTENDS Integers, Sequences, FiniteSets, TLC

\* ------------------------------------------------------------------ bounds
\* Largest integer that occurs as a scalar in a supplied input.
MaxInt == 2
\* Longest sequence supplied as an input (the longest scatter).
MaxLen == 2

\* ------------------------------------------------------------------ values
\* A Value is a record of one shape: a null, an integer or a list of Values.
Null == [kind |-> "null", n |-> 0, items |-> <<>>]

IntV(i) == [kind |-> "int", n |-> i, items |-> <<>>]

ListV(s) == [kind |-> "list", n |-> 0, items |-> s]

Range(s) == {s[i] : i \in 1..Len(s)}

\* An optional field of a document: <<>> when the key is missing, <<v>> else.
GetOr(opt, default) == IF Len(opt) = 0 THEN default ELSE opt[1]

\* dict.get(k): None for a missing key.
Get(m, k) == IF k \in DOMAIN m THEN m[k] ELSE Null

EmptyMap == [k \in {} |-> Null]

\* m with m[k] = v (k added when missing).
Put(m, k, v) == [j \in DOMAIN m \cup {k} |-> IF j = k THEN v ELSE m[j]]

\* ------------------------------------------------------------------ ids
\* An id is the sequence of its characters.
X == <<"#", "x">>

Y == <<"#", "y">>

O == <<"#", "o">>

S == <<"#", "s">>

SA == <<"#", "s", "/", "a">>

SR == <<"#", "s", "/", "r">>

\* An id no input, output or step port declares.
N == <<"#", "n">>

ToolA == <<"#", "a">>

\* id[1:]
Bare(id) == SubSeq(id, 2, Len(id))

\* '#' + k
Hash(k) == <<"#">> \o k

\* node.split('/')[-1]
LastSegment(id) ==
  LET slashes == {i \in 1..Len(id) : id[i] = "/"}
      last == CHOOSE i \in slashes : \A j \in slashes : j <= i
  IN IF slashes = {} THEN id ELSE SubSeq(id, last + 1, Len(id))

\* Keys of the mappings an ExpressionTool returns.
KeyR == <<"r">>

KeyE == <<"e">>

\* ------------------------------------------------------------------ documents
Link(source, position) == [source |-> source, position |-> position]

Port(id, dep, value, links) ==
  [id |-> id, depth |-> dep, value |-> value, links |-> links]

\* An ExpressionTool document with the given input ports.
ToolDoc(inputs) ==
  [class |-> "ExpressionTool", inputs |-> inputs, outputs |-> <<>>, steps |-> <<>>]

\* A Workflow document: inputs #x (declared value 1) and #y, output #o, one
\* step #s, with input #s/a (declared value 2) and output #s/r, whose
\* implementation is an ExpressionTool with input #a.
WorkflowDoc(dx, dy, olinks, alinks, ta) ==
  [class |-> "Workflow",
   inputs |-> <<Port(X, dx, <<IntV(1)>>, <<>>), Port(Y, dy, <<>>, <<>>)>>,
   outputs |-> <<Port(O, <<>>, <<>>, olinks)>>,
   steps |-> <<[id |-> S,
                impl |-> ToolDoc(<<Port(ToolA, ta, <<>>, <<>>)>>),
                inputs |-> <<Port(SA, <<>>, <<IntV(2)>>, alinks)>>,
                outputs |-> <<Port(SR, <<>>, <<>>, <<>>)>>]>>]

\* Declared depths of #x and #y: missing (0), 0 or 1.
DepthPairs == {<<<<>>, <<>>>>, <<<<1>>, <<0>>>>, <<<<1>>, <<1>>>>}

OutLinks ==
  { <<>>,
    <<Link(X, <<>>)>>,
    <<Link(SR, <<>>)>>,
    <<Link(X, <<1>>), Link(Y, <<0>>)>>,
    <<Link(X, <<>>), Link(Y, <<>>)>>,
    <<Link(O, <<>>)>>,
    <<Link(N, <<>>)>> }

StepLinks ==
  { <<>>, <<Link(X, <<>>)>>, <<Link(SR, <<>>)>>, <<Link(O, <<>>)>> }

WorkflowDocs ==
  { WorkflowDoc(dp[1], dp[2], ol, al, ta) :
      dp \in {<<<<>>, <<>>>>, <<<<1>>, <<0>>>>}, ol \in OutLinks,
      al \in StepLinks, ta \in {<<>>, <<1>>} }

ToolDocs ==
  { ToolDoc(<<Port(X, dp[1], <<>>, <<>>), Port(Y, dp[2], <<>>, <<>>)>>) :
      dp \in DepthPairs }

\* An output binding: glob is <<pattern>>, <<>> when the key is missing.
Adapter(glob) == [glob |-> glob]

\* out['type'] as a string.
TypeName(name) == [kind |-> "str", type |-> name, outputBinding |-> <<>>]

\* out['type'] as a mapping with a 'type' and, optionally, an outputBinding.
TypeDict(name, binding) == [kind |-> "dict", type |-> name, outputBinding |-> binding]

\* An output of a CommandLineTool document.
Output(id, type, binding) == [id |-> id, type |-> type, outputBinding |-> binding]

P == <<"#", "p">>

\* The output lists of the CommandLineTool documents of the model.
CLToolOutputs ==
  { <<>>,
    <<Output(O, TypeName("File"), <<Adapter(<<"*.txt">>)>>)>>,
    <<Output(O, TypeDict("File", <<Adapter(<<"a.txt">>)>>), <<>>),
      Output(P, TypeDict("array", <<>>), <<Adapter(<<"*.txt">>)>>)>>,
    <<Output(O, TypeName("File"), <<Adapter(<<"*.txt">>)>>),
      Output(P, TypeName("string"), <<>>)>>,
    <<Output(P, TypeDict("array", <<>>), <<Adapter(<<"">>)>>),
      Output(O, TypeDict("array", <<Adapter(<<>>)>>), <<>>)>>,
    <<Output(O, TypeName("string"), <<Adapter(<<"*.txt">>)>>)>> }

CLToolDocs ==
  { [class |-> "CommandLineTool", inputs |-> <<Port(X, <<>>, <<>>, <<>>)>>,
     outputs |-> outs, steps |-> <<>>] : outs \in CLToolOutputs }

\* ------------------------------------------------------------------ inputs
Ints == {IntV(i) : i \in 1..MaxInt}

IntLists == {ListV(s) : s \in UNION {[1..j -> Ints] : j \in 0..MaxLen}}

\* Values nested deeper than one level, or unevenly.
DeepLists ==
  { ListV(<<ListV(<<IntV(1)>>)>>),
    ListV(<<ListV(<<>>)>>),
    ListV(<<IntV(1), ListV(<<IntV(2)>>)>>) }

\* A mapping with up to three keys; <<>> leaves the key out.
Mapping(x, y, z) ==
  [k \in (IF x = <<>> THEN {} ELSE {Bare(X)})
         \cup (IF y = <<>> THEN {} ELSE {Bare(Y)})
         \cup (IF z = <<>> THEN {} ELSE {Bare(N)}) |->
     IF k = Bare(X) THEN x[1] ELSE IF k = Bare(Y) THEN y[1] ELSE z[1]]

\* The inputs handed to a tool's run.
ToolInputs ==
  { Mapping(x, y, z) :
      x \in {<<>>} \cup {<<v>> : v \in {Null} \cup Ints \cup IntLists \cup DeepLists},
      y \in {<<>>, <<IntV(1)>>, <<ListV(<<IntV(1)>>)>>},
      z \in {<<>>, <<IntV(1)>>} }

\* The inputs handed to a workflow's run.
WorkflowInputs ==
  { Mapping(<<>>, <<>>, <<>>),
    Mapping(<<IntV(1)>>, <<>>, <<>>),
    Mapping(<<>>, <<IntV(2)>>, <<>>),
    Mapping(<<IntV(2)>>, <<IntV(1)>>, <<>>),
    Mapping(<<ListV([i \in 1..MaxLen |-> IntV(i)])>>, <<>>, <<>>),
    Mapping(<<ListV([i \in 1..MaxLen |-> IntV(i)])>>, <<ListV(<<IntV(1)>>)>>, <<>>),
    Mapping(<<ListV(<<>>)>>, <<>>, <<>>),
    Mapping(<<IntV(1)>>, <<>>, <<IntV(1)>>),
    Mapping(<<ListV([i \in 1..MaxLen |-> IntV(i)])>>, <<>>, <<IntV(1)>>) }

\* The inputs handed to a command line tool's run.
CLToolInputs ==
  { Mapping(<<IntV(1)>>, <<>>, <<>>),
    Mapping(<<ListV([i \in 1..MaxLen |-> IntV(i)])>>, <<>>, <<>>) }

\* ------------------------------------------------------------------ graph
\* networkx.DiGraph.  type, val and impl hold the node attributes of those
\* names, each defined only on the nodes that carry the attribute; edges
\* carry attribute dicts.
EmptyGraph ==
  [nodes |-> {}, type |-> EmptyMap, val |-> EmptyMap, impl |-> EmptyMap,
   edges |-> {}]

\* g.add_node(n, type=t[, val=v][, impl=i]): val and impl are optional
\* (<<>> when not passed); attributes of an existing node are updated.
add_node(g, n, t, val, impl) ==
  [g EXCEPT !.nodes = @ \cup {n},
            !.type = Put(@, n, t),
            !.val = IF val = <<>> THEN @ ELSE Put(@, n, val[1]),
            !.impl = IF impl = <<>> THEN @ ELSE Put(@, n, impl[1])]

\* g.add_edge(u, v, **attrs): a missing endpoint becomes a node without
\* attributes; the attributes of an existing edge are updated.
add_edge(g, u, v, attrs) ==
  LET old == {e \in g.edges : e.src = u /\ e.dst = v}
      merged == IF old = {} THEN attrs
                ELSE LET o == (CHOOSE e \in old : TRUE).attrs
                     IN [k \in DOMAIN o \cup DOMAIN attrs |->
                           IF k \in DOMAIN attrs THEN attrs[k] ELSE o[k]]
  IN [g EXCEPT !.nodes = @ \cup {u, v},
               !.edges = (@ \ old) \cup {[src |-> u, dst |-> v, attrs |-> merged]}]

Pos(p) == [k \in {"pos"} |-> p]

NoAttrs == [k \in {} |-> 0]

predecessors(g, n) == {e.src : e \in {e \in g.edges : e.dst = n}}

\* is_directed_acyclic_graph that only looks for an edge from a node to itself.
no_self_loops(g) == \A n \in g.nodes : n \notin predecessors(g, n)

\* nx.is_directed_acyclic_graph(g): a topological order exists, found by
\* repeatedly removing the nodes no remaining edge points to.
RECURSIVE topological_sort(_, _)
topological_sort(g, left) ==
  LET free == {n \in left : predecessors(g, n) \cap left = {}}
  IN IF left = {} THEN TRUE
     ELSE IF free = {} THEN FALSE
     ELSE topological_sort(g, left \ free)

is_directed_acyclic_graph(g) == topological_sort(g, g.nodes)

\* ------------------------------------------------------------------ Workflow.__init__
RECURSIVE add_links(_, _, _)
add_links(g, links, target) ==
  IF links = <<>> THEN g
  ELSE add_links(add_edge(g, links[1].source, target,
                          Pos(GetOr(links[1].position, 0))),
                 Tail(links), target)

\* add_inputs that drops the declared value of an input.
RECURSIVE add_inputs_without_value(_, _)
add_inputs_without_value(g, inputs) ==
  IF inputs = <<>> THEN g
  ELSE add_inputs_without_value(add_node(g, inputs[1].id, "port", <<Null>>, <<>>),
                                Tail(inputs))

RECURSIVE add_inputs(_, _)
add_inputs(g, inputs) ==
  IF inputs = <<>> THEN g
  ELSE add_inputs(add_node(g, inputs[1].id, "port",
                           <<GetOr(inputs[1].value, Null)>>, <<>>),
                  Tail(inputs))

RECURSIVE add_outputs(_, _)
add_outputs(g, outputs) ==
  IF outputs = <<>> THEN g
  ELSE add_outputs(add_links(add_node(g, outputs[1].id, "port", <<>>, <<>>),
                             outputs[1].links, outputs[1].id),
                   Tail(outputs))

RECURSIVE add_step_inputs(_, _, _)
add_step_inputs(g, inputs, step_id) ==
  IF inputs = <<>> THEN g
  ELSE LET inp == inputs[1]
           g1 == add_node(g, inp.id, "port", <<GetOr(inp.value, Null)>>, <<>>)
           g2 == add_edge(g1, inp.id, step_id, NoAttrs)
       IN add_step_inputs(add_links(g2, inp.links, inp.id), Tail(inputs), step_id)

RECURSIVE add_step_outputs(_, _, _)
add_step_outputs(g, outputs, step_id) ==
  IF outputs = <<>> THEN g
  ELSE add_step_outputs(
         add_edge(add_node(g, outputs[1].id, "port", <<>>, <<>>),
                  step_id, outputs[1].id, NoAttrs),
         Tail(outputs), step_id)

RECURSIVE add_steps(_, _)
add_steps(g, steps) ==
  IF steps = <<>> THEN g
  ELSE LET step == steps[1]
           g1 == add_node(g, step.id, "step", <<>>, <<step.impl>>)
           g2 == add_step_inputs(g1, step.inputs, step.id)
       IN add_steps(add_step_outputs(g2, step.outputs, step.id), Tail(steps))

\* The graph the constructor builds, before the acyclicity assertion.
build_graph(doc) ==
  add_steps(add_outputs(add_inputs(EmptyGraph, doc.inputs), doc.outputs), doc.steps)

\* self.result after the constructor: every output's bare name, mapped to None.
init_result(doc) == [k \in {Bare(out.id) : out \in Range(doc.outputs)} |-> Null]

\* ------------------------------------------------------------------ BaseApp.run
\* The messages of the errors run and the constructor raise.
ScatterAmbiguous == "Depth mismatch on more than one port."

UnderNested == "Actual depth less than expected."

ScatterUnsupported == "Currently only handling iteration on one level of nesting."

CycleDetected == "Workflow contains a cycle."

RECURSIVE depth(_)
depth(o) ==
  IF o.kind # "list" \/ Len(o.items) = 0 THEN 0 ELSE depth(o.items[1]) + 1

\* {i['id'][1:]: i.get('depth', 0) for i in self.d.get('inputs', [])}
expected_depths(doc) ==
  [k \in {Bare(i.id) : i \in Range(doc.inputs)} |->
     GetOr((CHOOSE i \in Range(doc.inputs) : Bare(i.id) = k).depth, 0)]

actual_depths(inputs) == [k \in DOMAIN inputs |-> depth(inputs[k])]

\* expected_depths restricted to the supplied keys.
supplied_depths(doc, inputs) ==
  [k \in DOMAIN expected_depths(doc) \cap DOMAIN inputs |-> expected_depths(doc)[k]]

\* The ports of the mismatch dict.
mismatch(doc, inputs) ==
  {k \in DOMAIN supplied_depths(doc, inputs) :
     actual_depths(inputs)[k] # supplied_depths(doc, inputs)[k]}

\* dispatch that tests for too little nesting before it counts the mismatches.
dispatch_under_first(doc, inputs) ==
  LET expected == supplied_depths(doc, inputs)
      actual == actual_depths(inputs)
      mm == mismatch(doc, inputs)
      port == CHOOSE k \in mm : TRUE
  IN IF expected = actual THEN [kind |-> "direct", port |-> <<>>]
     ELSE IF \E k \in mm : actual[k] < expected[k]
          THEN [kind |-> UnderNested, port |-> <<>>]
     ELSE IF Cardinality(mm) > 1 THEN [kind |-> ScatterAmbiguous, port |-> <<>>]
     ELSE IF mm = {} THEN [kind |-> "IndexError", port |-> <<>>]
     ELSE IF actual[port] - expected[port] # 1
          THEN [kind |-> ScatterUnsupported, port |-> <<>>]
     ELSE [kind |-> "scatter", port |-> <<port>>]

\* dispatch without the test for more than one mismatch: it takes the first.
dispatch_first_mismatch(doc, inputs) ==
  LET expected == supplied_depths(doc, inputs)
      actual == actual_depths(inputs)
      mm == mismatch(doc, inputs)
      port == CHOOSE k \in mm : TRUE
  IN IF expected = actual THEN [kind |-> "direct", port |-> <<>>]
     ELSE IF mm = {} THEN [kind |-> "IndexError", port |-> <<>>]
     ELSE IF actual[port] < expected[port] THEN [kind |-> UnderNested, port |-> <<>>]
     ELSE IF actual[port] - expected[port] # 1
          THEN [kind |-> ScatterUnsupported, port |-> <<>>]
     ELSE [kind |-> "scatter", port |-> <<port>>]

\* What run does with the inputs before any _run: call _run once
\* ("direct"), iterate over the items of one port ("scatter"), or raise.
dispatch(doc, inputs) ==
  LET expected == supplied_depths(doc, inputs)
      actual == actual_depths(inputs)
      mm == mismatch(doc, inputs)
      port == CHOOSE k \in mm : TRUE
  IN IF expected = actual THEN [kind |-> "direct", port |-> <<>>]
     ELSE IF Cardinality(mm) > 1 THEN [kind |-> ScatterAmbiguous, port |-> <<>>]
     ELSE IF mm = {} THEN [kind |-> "IndexError", port |-> <<>>]
     ELSE IF actual[port] < expected[port] THEN [kind |-> UnderNested, port |-> <<>>]
     ELSE IF actual[port] - expected[port] # 1
          THEN [kind |-> ScatterUnsupported, port |-> <<>>]
     ELSE [kind |-> "scatter", port |-> <<port>>]

\* inps = deepcopy(inputs); inps[port] = item, for the i-th item.
scatter_inputs(inputs, port, i) == Put(inputs, port, inputs[port].items[i])

\* aggregate that leaves out the results that lack the key.
aggregate_present_only(results) ==
  [k \in UNION {DOMAIN results[i] : i \in 1..Len(results)} |->
     ListV(LET has(r) == k \in DOMAIN r
               rs == SelectSeq(results, has)
           IN [i \in 1..Len(rs) |-> rs[i][k]])]

\* {k: [r.get(k) for r in results] for k in outputs}, outputs the union of
\* the results' keys.
aggregate(results) ==
  [k \in UNION {DOMAIN results[i] : i \in 1..Len(results)} |->
     ListV([i \in 1..Len(results) |-> Get(results[i], k)])]

\* ------------------------------------------------------------------ ExpressionTool
\* jseval({'inputs': inputs}, expression): the values the sandbox may hand
\* back for the expressions of the model, which echo the tool's first
\* declared input under key r or under key e.
jseval(doc, inputs) ==
  LET v == Get(inputs, Bare(doc.inputs[1].id))
  IN {[k \in {KeyR} |-> v], [k \in {KeyE} |-> v]}

\* The outcomes of tool.run(inputs) for an ExpressionTool used as a step:
\* a returned mapping, or a raised error.
Returned(m) == [ok |-> TRUE, value |-> m, err |-> ""]

Raised(e) == [ok |-> FALSE, value |-> EmptyMap, err |-> e]

\* The lists of results of the _run calls over the items of port p, when
\* none of the calls raises.
scatter_results(doc, inputs, p) ==
  LET n == Len(inputs[p].items)
      per_item == [i \in 1..n |-> jseval(doc, scatter_inputs(inputs, p, i))]
  IN {rs \in [1..n -> UNION {per_item[i] : i \in 1..n}] :
        \A i \in 1..n : rs[i] \in per_item[i]}

tool_run(doc, inputs) ==
  UNION {
    IF dis.kind = "direct"
      THEN {Returned(m) : m \in jseval(doc, inputs)} \cup {Raised("ExpressionFailure")}
    ELSE IF dis.kind = "scatter"
      THEN {Returned(aggregate(rs)) : rs \in scatter_results(doc, inputs, dis.port[1])}
           \cup {Raised("ExpressionFailure")}
    ELSE {Raised(dis.kind)}
    : dis \in {dispatch(doc, inputs)} }

\* ------------------------------------------------------------------ job directory
\* The directory of one CLTool._run: its number (tempfile.mkdtemp makes a
\* new one per call), the names of its files, and the text of
\* result.cwl.json, <<>> when there is no such file.
JobDir(path, files, text) == [path |-> path, files |-> files, text |-> text]

NoDir == JobDir(0, {}, <<>>)

JobFile == "job.cwl.json"

ResultFile == "result.cwl.json"

\* The files a command may leave for the globs to find.
WorkFiles == {"a.txt", "b.txt"}

\* The texts a command may write to result.cwl.json; the last is no JSON.
ResultTexts == {"{}", "{\"o\": 1}", "oops"}

\* What os.system may return.
ExitStatuses == {0, 256}

\* A File value: {"@type": "File", "path": path}.
FileV(path) == [kind |-> "file", n |-> path, items |-> <<>>]

\* os.path.abspath(name) in directory dir: a number per directory and name.
abspath(dir, name) ==
  4 * dir.path + (CASE name = "a.txt" -> 1 [] name = "b.txt" -> 2 [] OTHER -> 3)

\* fnmatch of a file name against the patterns of the model.
fnmatch(name, pattern) ==
  \/ name = pattern
  \/ pattern = "*.txt" /\ name \in {"a.txt", "b.txt"}

\* The names glob.glob(pattern) finds in dir.
glob(dir, pattern) == {f \in dir.files : fnmatch(f, pattern)}

\* ------------------------------------------------------------------ listify_properties
\* A decoded document tree: a scalar, a list of trees, or a dict of trees.
NoFields == [k \in {} |-> 0]

Scalar(n) == [kind |-> "scalar", n |-> n, items |-> <<>>, fields |-> NoFields]

List(s) == [kind |-> "list", n |-> 0, items |-> s, fields |-> NoFields]

Dict(f) == [kind |-> "dict", n |-> 0, items |-> <<>>, fields |-> f]

\* The tuple props of listify_properties.
props == {"inputs", "outputs", "links", "baseCmd", "arguments", "schemaDefs", "steps"}

\* The scalar, the lists of at most one member of sub, and the dicts of at
\* most two of the keys with values in sub.
TreesOver(keys, sub) ==
  {Scalar(1)}
  \cup {List(s) : s \in UNION {[1..j -> sub] : j \in 0..1}}
  \cup UNION {{Dict(f) : f \in [K -> sub]} :
              K \in {K \in SUBSET keys : Cardinality(K) <= 2}}

\* The trees of the model: up to two levels of lists and dicts whose keys
\* are key, 'inputBindings' and 'id'.
Trees(key) ==
  LET keys == {key, "inputBindings", "id"}
  IN TreesOver(keys, TreesOver(keys, {Scalar(1)}))

\* listify_properties that wraps the value of a listed key in a list even
\* when it is a list already.
RECURSIVE listify_properties_wrapping_lists(_)
listify_properties_wrapping_lists(obj) ==
  IF obj.kind = "list"
    THEN List([i \in 1..Len(obj.items) |->
                 listify_properties_wrapping_lists(obj.items[i])])
  ELSE IF obj.kind = "dict"
    THEN Dict([key \in DOMAIN obj.fields |->
                 IF key \in props
                   THEN List(<<listify_properties_wrapping_lists(obj.fields[key])>>)
                   ELSE listify_properties_wrapping_lists(obj.fields[key])])
  ELSE obj

\* obj after listify_properties(obj), which changes it in place: the value
\* put into the new list is the object the recursive call then changes.
RECURSIVE listify_properties(_)
listify_properties(obj) ==
  IF obj.kind = "list"
    THEN List([i \in 1..Len(obj.items) |-> listify_properties(obj.items[i])])
  ELSE IF obj.kind = "dict"
    THEN Dict([key \in DOMAIN obj.fields |->
                 IF key \in props /\ obj.fields[key].kind # "list"
                   THEN List(<<listify_properties(obj.fields[key])>>)
                   ELSE listify_properties(obj.fields[key])])
  ELSE obj

\* How many times the model applies listify_properties to a tree.
MaxPasses == 2

\* The document of a run that loads none.
NoDoc == [class |-> "none", inputs |-> <<>>, outputs |-> <<>>, steps |-> <<>>]

\* ------------------------------------------------------------------ nodejs
\* The nodejs child process of execjs: state is none (not started), running,
\* exited (not waited for yet) or reaped (communicate has waited for it).
Process(state, returncode, stdoutdata, stderrdata) ==
  [state |-> state, returncode |-> returncode, stdoutdata |-> stdoutdata,
   stderrdata |-> stderrdata]

NoProcess == Process("none", 0, "", "")

\* Popen.returncode of a child that SIGTERM ended.
SIGTERM == 15

\* How the script may end by itself: the value printed, 'undefined' printed
\* for an expression without a value, an error thrown, a value printed
\* along with a warning on stderr.
Exits ==
  { Process("exited", 0, "1", ""),
    Process("exited", 0, "undefined", ""),
    Process("exited", 1, "", "ReferenceError"),
    Process("exited", 0, "1", "warning") }

\* What a child that SIGTERM ends may have printed before.
Killed == {Process("exited", 0 - SIGTERM, out, "") : out \in {"", "1"}}

\* ------------------------------------------------------------------ state
VARIABLES
  d,            \* the document handed to load_url
  inputs,       \* the mapping handed to run
  nodeOrder,    \* the order in which g.nodes_iter() yields the nodes
  edgeOrder,    \* the order in which a node's predecessors are yielded
  pc,           \* where the caller is: load, loaded, _run, next, execute,
                \* returned, done, failed
  err,          \* the error raised, "" when none
  g,            \* Workflow.g
  status,       \* the nodes' 'status' attribute, on the nodes that have one
  result,       \* the nodes' 'result' attribute, on the nodes that have one
  self_result,  \* Workflow.result
  inps,         \* the argument of the current _run
  port,         \* <<p>> while run iterates over port p, else <<>>
  results,      \* run's list of per-item results
  rv,           \* <<m>> once the current _run returned m
  ret,          \* <<m>> once run returned m
  calls,        \* how many times _run was entered
  cur,          \* <<n>> while node n is selected, else <<>>
  job_dir,      \* the files of the directory CLTool._run works in
  exit_status,  \* <<n>> once os.system returned n in the current _run
  out_i,        \* the index of the output CLTool._run is looking at
  tool_result,  \* the result dict CLTool._run fills from the globs
  globbed,      \* the outputs whose glob the current _run has evaluated
  obj,          \* the tree handed to listify_properties
  history,      \* the trees obj was before each application
  nodejs,       \* the child process of execjs
  tm,           \* the Timer thread: none, waiting, expired, cancelled, done
  js_value,     \* <<v>> once execjs returned v
  terminated    \* whether nodejs.terminate() has ended the child

\* The variables of CLTool._run.
tool_vars == <<job_dir, exit_status, out_i, tool_result, globbed>>

\* The variables of the calls of listify_properties.
list_vars == <<obj, history>>

\* The variables of execjs.
js_vars == <<nodejs, tm, js_value, terminated>>

vars ==
  <<d, inputs, nodeOrder, edgeOrder, pc, err, g, status, result, self_result,
    inps, port, results, rv, ret, calls, cur, tool_vars, list_vars, js_vars>>

AllIds == <<X, Y, O, S, SA, SR, N>>

Reverse(s) == [i \in 1..Len(s) |-> s[Len(s) + 1 - i]]

\* The iteration orders of a dict of node ids that the model considers.
Orders == {AllIds, Reverse(AllIds)}

\* A tree that stands for no tree.
NoTree == Scalar(0)

Init ==
  /\ \/ /\ d \in WorkflowDocs /\ inputs \in WorkflowInputs
        /\ nodeOrder \in Orders /\ edgeOrder \in Orders
        /\ pc = "load" /\ obj = NoTree
     \/ /\ d \in ToolDocs /\ inputs \in ToolInputs
        /\ nodeOrder = AllIds /\ edgeOrder = AllIds
        /\ pc = "load" /\ obj = NoTree
     \/ /\ d \in CLToolDocs /\ inputs \in CLToolInputs
        /\ nodeOrder = AllIds /\ edgeOrder = AllIds
        /\ pc = "load" /\ obj = NoTree
     \/ /\ d = NoDoc /\ inputs = EmptyMap
        /\ nodeOrder = AllIds /\ edgeOrder = AllIds
        /\ pc = "listify" /\ obj \in UNION {Trees(key) : key \in props}
     \/ /\ d = NoDoc /\ inputs = EmptyMap
        /\ nodeOrder = AllIds /\ edgeOrder = AllIds
        /\ pc = "execjs" /\ obj = NoTree
  /\ history = <<>>
  /\ nodejs = NoProcess
  /\ tm = "none"
  /\ js_value = <<>>
  /\ terminated = FALSE
  /\ err = ""
  /\ g = EmptyGraph
  /\ status = EmptyMap
  /\ result = EmptyMap
  /\ self_result = EmptyMap
  /\ inps = EmptyMap
  /\ port = <<>>
  /\ results = <<>>
  /\ rv = <<>>
  /\ ret = <<>>
  /\ calls = 0
  /\ cur = <<>>
  /\ job_dir = NoDir
  /\ exit_status = <<>>
  /\ out_i = 0
  /\ tool_result = EmptyMap
  /\ globbed = <<>>

\* raise: the error leaves every frame up to the caller of load_url / run.
raise(e) == pc' = "failed" /\ err' = e

\* ------------------------------------------------------------------ load_url
\* Workflow.__init__: the graph, self.result, and whether the assertion holds.
Workflow_init(doc) ==
  LET built == build_graph(doc)
  IN [g |-> built, result |-> init_result(doc),
      ok |-> is_directed_acyclic_graph(built)]

load_url ==
  /\ pc = "load"
  /\ IF d.class = "Workflow"
       THEN \E w \in {Workflow_init(d)} :
              IF w.ok
                THEN g' = w.g /\ self_result' = w.result
                     /\ pc' = "loaded" /\ err' = err
                ELSE raise(CycleDetected) /\ UNCHANGED <<g, self_result>>
       ELSE pc' = "loaded" /\ UNCHANGED <<g, self_result, err>>
  /\ UNCHANGED tool_vars
  /\ UNCHANGED list_vars
  /\ UNCHANGED js_vars
  /\ UNCHANGED <<d, inputs, nodeOrder, edgeOrder, status, result, inps, port,
                 results, rv, ret, calls, cur>>

\* ------------------------------------------------------------------ BaseApp.run
\* run up to its first _run, or to the error it raises.
run ==
  /\ pc = "loaded"
  /\ \E dis \in {dispatch(d, inputs)} :
        IF dis.kind = "direct"
          THEN pc' = "_run" /\ inps' = inputs /\ port' = <<>> /\ err' = err
        ELSE IF dis.kind = "scatter"
          THEN pc' = "_run" /\ inps' = scatter_inputs(inputs, dis.port[1], 1)
               /\ port' = dis.port /\ err' = err
        ELSE raise(dis.kind) /\ UNCHANGED <<inps, port>>
  /\ UNCHANGED tool_vars
  /\ UNCHANGED list_vars
  /\ UNCHANGED js_vars
  /\ UNCHANGED <<d, inputs, nodeOrder, edgeOrder, g, status, result,
                 self_result, results, rv, ret, calls, cur>>

\* _run returned to run: the value is returned (no iteration), or appended
\* to results; after the last item the results are aggregated and returned.
run_return ==
  /\ pc = "returned"
  /\ IF port = <<>>
       THEN ret' = rv /\ pc' = "done" /\ UNCHANGED <<results, inps>>
       ELSE LET rs == Append(results, rv[1])
            IN /\ results' = rs
               /\ IF Len(rs) < Len(inputs[port[1]].items)
                    THEN pc' = "_run" /\ ret' = ret
                         /\ inps' = scatter_inputs(inputs, port[1], Len(rs) + 1)
                    ELSE pc' = "done" /\ ret' = <<aggregate(rs)>> /\ inps' = inps
  /\ rv' = <<>>
  /\ UNCHANGED tool_vars
  /\ UNCHANGED list_vars
  /\ UNCHANGED js_vars
  /\ UNCHANGED <<d, inputs, nodeOrder, edgeOrder, err, g, status, result,
                 self_result, port, calls, cur>>

\* ------------------------------------------------------------------ ExpressionTool._run
ExpressionTool_run ==
  /\ pc = "_run"
  /\ d.class = "ExpressionTool"
  /\ calls' = calls + 1
  /\ \/ \E m \in jseval(d, inps) : rv' = <<m>> /\ pc' = "returned" /\ err' = err
     \/ raise("ExpressionFailure") /\ rv' = rv
  /\ UNCHANGED tool_vars
  /\ UNCHANGED list_vars
  /\ UNCHANGED js_vars
  /\ UNCHANGED <<d, inputs, nodeOrder, edgeOrder, g, status, result,
                 self_result, inps, port, results, ret, cur>>

\* ------------------------------------------------------------------ Workflow
\* The members of set s in the order seq yields them.
InOrder(seq, s) ==
  LET keep(n) == n \in s
  IN SelectSeq(seq, keep)

nodes_iter == InOrder(nodeOrder, g.nodes)

\* self.g.predecessors(node), a list.
predecessors_list(node) == InOrder(edgeOrder, predecessors(g, node))

\* edge[2].get('pos', 0) of the edge p -> node.
edge_pos(p, node) ==
  LET e == CHOOSE e \in g.edges : e.src = p /\ e.dst = node
  IN IF "pos" \in DOMAIN e.attrs THEN e.attrs["pos"] ELSE 0

\* sorted_sources without the sort: the sources in iteration order.
unsorted_sources(node) == predecessors_list(node)

\* The sources of in_edges(node) after edges.sort(key=pos): a stable sort.
sorted_sources(node) ==
  LET pre == predecessors_list(node)
      before(i, j) == \/ edge_pos(pre[i], node) < edge_pos(pre[j], node)
                      \/ /\ edge_pos(pre[i], node) = edge_pos(pre[j], node)
                         /\ i < j
      rank(j) == Cardinality({i \in 1..Len(pre) : before(i, j)}) + 1
  IN [r \in 1..Len(pre) |-> pre[CHOOSE j \in 1..Len(pre) : rank(j) = r]]

\* A value computed, or the KeyError of a missing attribute.
Ok(v) == [ok |-> TRUE, value |-> v]

KeyError == [ok |-> FALSE, value |-> Null]

\* make_val that keeps the val a node with one predecessor was given before.
make_val_keeping_val(node) ==
  LET pre == predecessors_list(node)
      p == pre[1]
      have == \A q \in Range(pre) : q \in DOMAIN result
  IN IF pre = <<>> THEN Ok(Get(g.val, node))
     ELSE IF node \notin DOMAIN g.type THEN KeyError
     ELSE IF g.type[node] = "port" /\ Len(pre) = 1
       THEN IF p \notin DOMAIN g.type \/ p \notin DOMAIN result THEN KeyError
            ELSE IF Get(g.val, node) # Null THEN Ok(g.val[node])
            ELSE IF g.type[p] = "port" THEN Ok(result[p])
            ELSE Ok(Get(result[p], LastSegment(node)))
     ELSE IF ~have THEN KeyError
     ELSE IF g.type[node] = "port" /\ Len(pre) > 1
       THEN Ok(ListV([i \in 1..Len(pre) |-> result[sorted_sources(node)[i]]]))
     ELSE Ok([k \in {LastSegment(q) : q \in Range(pre)} |->
                result[pre[CHOOSE i \in 1..Len(pre) :
                             /\ LastSegment(pre[i]) = k
                             /\ \A j \in 1..Len(pre) :
                                  LastSegment(pre[j]) = k => j <= i]]])

\* Workflow._make_val(node, data)
make_val(node) ==
  LET pre == predecessors_list(node)
      p == pre[1]
      have == \A q \in Range(pre) : q \in DOMAIN result
  IN IF pre = <<>> THEN Ok(Get(g.val, node))
     ELSE IF node \notin DOMAIN g.type THEN KeyError
     ELSE IF g.type[node] = "port" /\ Len(pre) = 1
       THEN IF p \notin DOMAIN g.type \/ p \notin DOMAIN result THEN KeyError
            ELSE IF g.type[p] = "port" THEN Ok(result[p])
            ELSE Ok(Get(result[p], LastSegment(node)))
     ELSE IF ~have THEN KeyError
     ELSE IF g.type[node] = "port" /\ Len(pre) > 1
       THEN Ok(ListV([i \in 1..Len(pre) |-> result[sorted_sources(node)[i]]]))
     ELSE Ok([k \in {LastSegment(q) : q \in Range(pre)} |->
                result[pre[CHOOSE i \in 1..Len(pre) :
                             /\ LastSegment(pre[i]) = k
                             /\ \A j \in 1..Len(pre) :
                                  LastSegment(pre[j]) = k => j <= i]]])

\* Workflow.set_inputs and the entry of Workflow._run.
set_inputs ==
  /\ pc = "_run"
  /\ d.class = "Workflow"
  /\ calls' = calls + 1
  /\ LET known == {k \in DOMAIN inps : Hash(k) \in g.nodes}
         store(keys) == [g EXCEPT !.val =
                           [n \in DOMAIN g.val \cup {Hash(k) : k \in keys} |->
                              IF Bare(n) \in keys THEN inps[Bare(n)] ELSE g.val[n]]]
     IN IF known = DOMAIN inps
          THEN g' = store(known) /\ pc' = "next" /\ err' = err
          \* self.g.node['#' + k] of a key that names no node: the keys met
          \* before it are stored.
          ELSE raise("KeyError") /\ \E keys \in SUBSET known : g' = store(keys)
  /\ UNCHANGED tool_vars
  /\ UNCHANGED list_vars
  /\ UNCHANGED js_vars
  /\ UNCHANGED <<d, inputs, nodeOrder, edgeOrder, status, result, self_result,
                 inps, port, results, rv, ret, cur>>

\* ready without the test for a status of the node itself.
ready_ignoring_status(node) ==
  \A q \in predecessors(g, node) : q \in DOMAIN status /\ status[q] = "done"

\* The test of Workflow.next: no status, and every predecessor done.
ready(node) ==
  /\ node \notin DOMAIN status
  /\ \A q \in predecessors(g, node) : q \in DOMAIN status /\ status[q] = "done"

\* first_ready whose scan stops one node short of the end.
first_ready_but_last ==
  LET order == nodes_iter
      is == {i \in 1..Len(order) - 1 : ready(order[i])}
  IN IF is = {} THEN <<>>
     ELSE <<order[CHOOSE i \in is : \A j \in is : i <= j]>>

\* The node Workflow.next selects: the first ready one, <<>> when none is.
first_ready ==
  LET order == nodes_iter
      is == {i \in 1..Len(order) : ready(order[i])}
  IN IF is = {} THEN <<>>
     ELSE <<order[CHOOSE i \in is : \A j \in is : i <= j]>>

\* Workflow.next when a node is ready.
next ==
  /\ pc = "next"
  /\ \E sel \in {first_ready} :
       /\ sel # <<>>
       /\ \E v \in {make_val(sel[1])} :
            IF v.ok
              THEN /\ g' = [g EXCEPT !.val = Put(@, sel[1], v.value)]
                   /\ status' = Put(status, sel[1], "running")
                   /\ cur' = sel
                   /\ pc' = "execute"
                   /\ err' = err
              ELSE raise("KeyError") /\ UNCHANGED <<g, status, cur>>
  /\ UNCHANGED tool_vars
  /\ UNCHANGED list_vars
  /\ UNCHANGED js_vars
  /\ UNCHANGED <<d, inputs, nodeOrder, edgeOrder, result, self_result, inps,
                 port, results, rv, ret, calls>>

\* project_outputs that hands back self.result as the constructor left it.
project_outputs_stale == <<self_result>>

\* self.result after _make_outputs, <<>> when an output node has no result.
project_outputs ==
  IF \A out \in DOMAIN self_result : Hash(out) \in DOMAIN result
    THEN <<[out \in DOMAIN self_result |-> result[Hash(out)]]>>
    ELSE <<>>

\* Workflow.next finds no node: _make_outputs, and _run returns self.result.
\* The entries of run's results are this same dict.
make_outputs ==
  /\ pc = "next"
  /\ first_ready = <<>>
  /\ \E out \in {project_outputs} :
        IF out # <<>>
          THEN /\ self_result' = out[1]
               /\ rv' = out
               /\ results' = [i \in 1..Len(results) |-> out[1]]
               /\ pc' = "returned"
               /\ err' = err
          ELSE raise("KeyError") /\ UNCHANGED <<self_result, rv, results>>
  /\ UNCHANGED tool_vars
  /\ UNCHANGED list_vars
  /\ UNCHANGED js_vars
  /\ UNCHANGED <<d, inputs, nodeOrder, edgeOrder, g, status, result, inps,
                 port, ret, calls, cur>>

\* finish that stores the result and clears the status.
finish_clearing_status(node, res) ==
  /\ status' = [n \in DOMAIN status \ {node} |-> status[n]]
  /\ result' = Put(result, node, res)

\* Workflow.finish(node, result)
finish(node, res) ==
  /\ status' = Put(status, node, "done")
  /\ result' = Put(result, node, res)

\* execute that notes a step's failure and goes on with an empty result.
execute_logging_failure ==
  /\ pc = "execute"
  /\ LET node == cur[1]
     IN IF node \notin DOMAIN g.type
          THEN raise("KeyError") /\ UNCHANGED <<status, result, cur>>
        ELSE IF g.type[node] = "port"
          THEN finish(node, g.val[node]) /\ pc' = "next" /\ cur' = <<>> /\ err' = err
        ELSE \E o \in tool_run(g.impl[node], g.val[node]) :
               /\ finish(node, o.value) /\ pc' = "next" /\ cur' = <<>>
               /\ err' = o.err
  /\ UNCHANGED tool_vars
  /\ UNCHANGED list_vars
  /\ UNCHANGED js_vars
  /\ UNCHANGED <<d, inputs, nodeOrder, edgeOrder, g, self_result, inps, port,
                 results, rv, ret, calls>>

\* Workflow.execute(node) and the return to the loop of _run.
execute ==
  /\ pc = "execute"
  /\ LET node == cur[1]
     IN IF node \notin DOMAIN g.type
          THEN raise("KeyError") /\ UNCHANGED <<status, result, cur>>
        ELSE IF g.type[node] = "port"
          THEN finish(node, g.val[node]) /\ pc' = "next" /\ cur' = <<>> /\ err' = err
        ELSE \E o \in tool_run(g.impl[node], g.val[node]) :
               IF o.ok
                 THEN finish(node, o.value) /\ pc' = "next" /\ cur' = <<>>
                      /\ err' = err
                 ELSE raise(o.err) /\ UNCHANGED <<status, result, cur>>
  /\ UNCHANGED tool_vars
  /\ UNCHANGED list_vars
  /\ UNCHANGED js_vars
  /\ UNCHANGED <<d, inputs, nodeOrder, edgeOrder, g, self_result, inps, port,
                 results, rv, ret, calls>>

\* ------------------------------------------------------------------ CLTool._run
\* json.load of the text of result.cwl.json.
json_load(text) ==
  CASE text = "{}" -> Ok(EmptyMap)
    [] text = "{\"o\": 1}" -> Ok([k \in {Bare(O)} |-> IntV(1)])
    [] OTHER -> [ok |-> FALSE, value |-> EmptyMap]

\* CLTool._run up to os.system(line): the job is written to a new
\* directory, the command runs there, leaves its files and exits; a status
\* other than zero raises RuntimeError('Process failed.').
CLTool_run ==
  /\ pc = "_run"
  /\ d.class = "CommandLineTool"
  /\ calls' = calls + 1
  /\ \E st \in ExitStatuses, work \in SUBSET WorkFiles,
        text \in {<<>>} \cup {<<t>> : t \in ResultTexts} :
       /\ job_dir' = JobDir(calls + 1,
                            {JobFile} \cup work
                              \cup (IF text = <<>> THEN {} ELSE {ResultFile}),
                            text)
       /\ exit_status' = <<st>>
       /\ IF st # 0 THEN raise("Process failed.")
                     ELSE pc' = "exited" /\ err' = err
  /\ out_i' = 0 /\ tool_result' = EmptyMap /\ globbed' = <<>>
  /\ UNCHANGED list_vars
  /\ UNCHANGED js_vars
  /\ UNCHANGED <<d, inputs, nodeOrder, edgeOrder, g, status, result,
                 self_result, inps, port, results, rv, ret, cur>>

\* CLTool_result_file that never looks for result.cwl.json.
CLTool_result_file_unread ==
  /\ pc = "exited"
  /\ out_i' = 1 /\ tool_result' = EmptyMap
  /\ pc' = "outputs"
  /\ UNCHANGED list_vars
  /\ UNCHANGED js_vars
  /\ UNCHANGED <<d, inputs, nodeOrder, edgeOrder, err, g, status, result,
                 self_result, inps, port, results, rv, ret, calls, cur, job_dir,
                 exit_status, globbed>>

\* os.path.isfile('result.cwl.json'): the decoded file is returned, or the
\* loop over the outputs starts with an empty result.
CLTool_result_file ==
  /\ pc = "exited"
  /\ IF ResultFile \in job_dir.files
       THEN /\ \E m \in {json_load(job_dir.text[1])} :
                 IF m.ok THEN rv' = <<m.value>> /\ pc' = "returned" /\ err' = err
                         ELSE raise("ValueError") /\ rv' = rv
            /\ UNCHANGED <<out_i, tool_result>>
       ELSE /\ out_i' = 1 /\ tool_result' = EmptyMap
            /\ pc' = "outputs"
            /\ UNCHANGED <<rv, err>>
  /\ UNCHANGED list_vars
  /\ UNCHANGED js_vars
  /\ UNCHANGED <<d, inputs, nodeOrder, edgeOrder, g, status, result,
                 self_result, inps, port, results, ret, calls, cur, job_dir,
                 exit_status, globbed>>

\* The adapter of an output: its outputBinding, else the one of its type
\* when the type is a mapping; <<>> when there is none.
adapter_of(out) ==
  IF out.outputBinding # <<>> THEN out.outputBinding
  ELSE IF out.type.kind = "dict" THEN out.type.outputBinding
  ELSE <<>>

\* adapter.get('glob') of the output's adapter, "" when there is no adapter
\* or no glob: the cases in which the loop goes on to the next output.
glob_of(out) ==
  IF adapter_of(out) = <<>> THEN "" ELSE GetOr(adapter_of(out)[1].glob, "")

\* The sequences that list the members of set s once each.
Perms(s) ==
  {q \in [1..Cardinality(s) -> s] : \A x \in s : \E i \in DOMAIN q : q[i] = x}

\* One round of the loop over the outputs: an output without a glob is
\* skipped; else the glob is evaluated and a File, or a list of Files for an
\* array, is stored under the output's bare name.
CLTool_output ==
  /\ pc = "outputs"
  /\ out_i <= Len(d.outputs)
  /\ LET out == d.outputs[out_i]
         pattern == glob_of(out)
         file(name) == FileV(abspath(job_dir, name))
     IN IF pattern = ""
          THEN /\ out_i' = out_i + 1
               /\ UNCHANGED <<pc, err, tool_result, globbed>>
          ELSE /\ globbed' = Append(globbed, out.id)
               /\ \E matches \in Perms(glob(job_dir, pattern)) :
                    IF out.type.type = "File"
                      THEN IF matches = <<>>
                             \* matches[0] of an empty list
                             THEN raise("IndexError")
                                  /\ UNCHANGED <<out_i, tool_result>>
                             ELSE /\ tool_result' =
                                       Put(tool_result, Bare(out.id), file(matches[1]))
                                  /\ out_i' = out_i + 1
                                  /\ UNCHANGED <<pc, err>>
                    ELSE IF out.type.kind = "str"
                      \* out['type']['type'] of a string
                      THEN raise("TypeError") /\ UNCHANGED <<out_i, tool_result>>
                    ELSE IF out.type.type = "array"
                      THEN /\ tool_result' =
                                Put(tool_result, Bare(out.id),
                                    ListV([i \in 1..Len(matches) |-> file(matches[i])]))
                           /\ out_i' = out_i + 1
                           /\ UNCHANGED <<pc, err>>
                    ELSE /\ out_i' = out_i + 1
                         /\ UNCHANGED <<pc, err, tool_result>>
  /\ UNCHANGED list_vars
  /\ UNCHANGED js_vars
  /\ UNCHANGED <<d, inputs, nodeOrder, edgeOrder, g, status, result,
                 self_result, inps, port, results, rv, ret, calls, cur, job_dir,
                 exit_status>>

\* The loop over the outputs is over: _run returns result.
CLTool_return ==
  /\ pc = "outputs"
  /\ out_i > Len(d.outputs)
  /\ rv' = <<tool_result>>
  /\ pc' = "returned"
  /\ UNCHANGED list_vars
  /\ UNCHANGED js_vars
  /\ UNCHANGED <<d, inputs, nodeOrder, edgeOrder, err, g, status, result,
                 self_result, inps, port, results, ret, calls, cur, tool_vars>>

\* ------------------------------------------------------------------ listify_properties(doc)
\* One application of listify_properties to the tree.
listify ==
  /\ pc = "listify"
  /\ Len(history) < MaxPasses
  /\ obj' = listify_properties(obj)
  /\ history' = Append(history, obj)
  /\ UNCHANGED js_vars
  /\ UNCHANGED <<d, inputs, nodeOrder, edgeOrder, pc, err, g, status, result,
                 self_result, inps, port, results, rv, ret, calls, cur, tool_vars>>

\* ------------------------------------------------------------------ execjs
\* json.loads(stdoutdata)
json_loads(text) ==
  IF text = "1" THEN Ok(IntV(1)) ELSE [ok |-> FALSE, value |-> Null]

\* execjs up to tm.start(): the child is started and the Timer thread
\* begins to wait.
execjs_start ==
  /\ pc = "execjs"
  /\ nodejs' = Process("running", 0, "", "")
  /\ tm' = "waiting"
  /\ pc' = "communicate"
  /\ UNCHANGED <<err, js_value, terminated>>
  /\ UNCHANGED <<d, inputs, nodeOrder, edgeOrder, g, status, result,
                 self_result, inps, port, results, rv, ret, calls, cur, tool_vars,
                 list_vars>>

\* The child ends by itself.
nodejs_exit ==
  /\ nodejs.state = "running"
  /\ nodejs' \in Exits
  /\ UNCHANGED <<pc, err, tm, js_value, terminated>>
  /\ UNCHANGED <<d, inputs, nodeOrder, edgeOrder, g, status, result,
                 self_result, inps, port, results, rv, ret, calls, cur, tool_vars,
                 list_vars>>

\* Timer.run: the interval is over and the timer was not cancelled.
timer_expire ==
  /\ tm = "waiting"
  /\ tm' = "expired"
  /\ UNCHANGED <<pc, err, nodejs, js_value, terminated>>
  /\ UNCHANGED <<d, inputs, nodeOrder, edgeOrder, g, status, result,
                 self_result, inps, port, results, rv, ret, calls, cur, tool_vars,
                 list_vars>>

\* term(), called by the Timer thread: nodejs.terminate() ends a running
\* child; on a child that has exited the signal does nothing, or terminate
\* raises the OSError that term swallows.
term ==
  /\ tm = "expired"
  /\ tm' = "done"
  /\ IF nodejs.state = "running"
       THEN nodejs' \in Killed /\ terminated' = TRUE
       ELSE UNCHANGED <<nodejs, terminated>>
  /\ UNCHANGED <<pc, err, js_value>>
  /\ UNCHANGED <<d, inputs, nodeOrder, edgeOrder, g, status, result,
                 self_result, inps, port, results, rv, ret, calls, cur, tool_vars,
                 list_vars>>

\* nodejs.communicate(script) returns once the child has exited, and has
\* waited for it.
communicate_return ==
  /\ pc = "communicate"
  /\ nodejs.state = "exited"
  /\ nodejs' = [nodejs EXCEPT !.state = "reaped"]
  /\ pc' = "communicated"
  /\ UNCHANGED <<err, tm, js_value, terminated>>
  /\ UNCHANGED <<d, inputs, nodeOrder, edgeOrder, g, status, result,
                 self_result, inps, port, results, rv, ret, calls, cur, tool_vars,
                 list_vars>>

\* tm.cancel(): a timer that still waits never calls term; one that has
\* expired goes on.
tm_cancel ==
  /\ pc = "communicated"
  /\ tm' = IF tm = "waiting" THEN "cancelled" ELSE tm
  /\ pc' = "check"
  /\ UNCHANGED <<err, nodejs, js_value, terminated>>
  /\ UNCHANGED <<d, inputs, nodeOrder, edgeOrder, g, status, result,
                 self_result, inps, port, results, rv, ret, calls, cur, tool_vars,
                 list_vars>>

\* execjs_return that looks at stderrdata only.
execjs_return_ignoring_returncode ==
  /\ pc = "check"
  /\ IF nodejs.stderrdata # ""
       THEN raise("JavascriptException") /\ js_value' = js_value
       ELSE \E v \in {json_loads(nodejs.stdoutdata)} :
              IF v.ok THEN js_value' = <<v.value>> /\ pc' = "evaluated" /\ err' = err
                      ELSE raise("ValueError") /\ js_value' = js_value
  /\ UNCHANGED <<nodejs, tm, terminated>>
  /\ UNCHANGED <<d, inputs, nodeOrder, edgeOrder, g, status, result,
                 self_result, inps, port, results, rv, ret, calls, cur, tool_vars,
                 list_vars>>

\* The end of execjs: JavascriptException when the child wrote to stderr or
\* its returncode is not 0, else the decoded stdoutdata.
execjs_return ==
  /\ pc = "check"
  /\ IF nodejs.stderrdata # "" \/ nodejs.returncode # 0
       THEN raise("JavascriptException") /\ js_value' = js_value
       ELSE \E v \in {json_loads(nodejs.stdoutdata)} :
              IF v.ok THEN js_value' = <<v.value>> /\ pc' = "evaluated" /\ err' = err
                      ELSE raise("ValueError") /\ js_value' = js_value
  /\ UNCHANGED <<nodejs, tm, terminated>>
  /\ UNCHANGED <<d, inputs, nodeOrder, edgeOrder, g, status, result,
                 self_result, inps, port, results, rv, ret, calls, cur, tool_vars,
                 list_vars>>

\* ------------------------------------------------------------------ specification
Next ==
  \/ load_url
  \/ run
  \/ ExpressionTool_run
  \/ set_inputs
  \/ next
  \/ make_outputs
  \/ execute
  \/ run_return
  \/ CLTool_run
  \/ CLTool_result_file
  \/ CLTool_output
  \/ CLTool_return
  \/ listify
  \/ execjs_start
  \/ nodejs_exit
  \/ timer_expire
  \/ term
  \/ communicate_return
  \/ tm_cancel
  \/ execjs_return

Spec == Init /\ [][Next]_vars

\* The steps of a call of run, from its depth test to its return.
RunStep ==
  \/ run
  \/ ExpressionTool_run
  \/ set_inputs
  \/ next
  \/ make_outputs
  \/ execute
  \/ run_return
  \/ CLTool_run
  \/ CLTool_result_file
  \/ CLTool_output
  \/ CLTool_return

\* The statements of execjs, in the thread that called it.
ExecjsStep ==
  \/ execjs_start
  \/ communicate_return
  \/ tm_cancel
  \/ execjs_return

\* The steps of the Timer thread.
TimerStep ==
  \/ timer_expire
  \/ term

\* Once run is called the interpreter executes it statement by statement:
\* no statement of a call in progress is put off forever.  The same holds
\* of execjs and of the Timer thread it starts; the child process may run
\* forever.
LiveSpec ==
  Spec /\ WF_vars(RunStep) /\ WF_vars(ExecjsStep) /\ WF_vars(TimerStep)

\* ------------------------------------------------------------------ properties
IsWorkflow == d.class = "Workflow"

\* run was called (load_url returned an object) and is past its depth test.
Dispatched ==
  /\ d.class \in {"Workflow", "ExpressionTool", "CommandLineTool"}
  /\ pc \notin {"load", "loaded"} /\ err # CycleDetected

Done(n) == n \in DOMAIN status /\ status[n] = "done"

Running(n) == n \in DOMAIN status /\ status[n] = "running"

\* C1: a node is selected (val computed, status set to 'running') only from
\* a state where it has no status and every predecessor is 'done' and has
\* stored its result; so no node is running or done before all of its
\* predecessors are done.
C1_SelectedOnlyWhenReady ==
  [][ /\ \A n \in g.nodes :
           (n \in DOMAIN status' /\ status'[n] = "running" /\ ~Running(n)) =>
             /\ n \notin DOMAIN status
             /\ \A q \in predecessors(g, n) : Done(q) /\ q \in DOMAIN result
      /\ \A n \in DOMAIN status' : \A q \in predecessors(g', n) :
           /\ q \in DOMAIN status' /\ status'[q] = "done"
           /\ q \in DOMAIN result' ]_vars

\* C1 witness: a node with a predecessor has been selected.
C1_Witness ==
  /\ pc = "execute"
  /\ Running(cur[1])
  /\ predecessors(g, cur[1]) # {}

\* What does hold of the first _run of a constructed workflow: it ends, by
\* return or by an exception, and when it returns every node of the graph
\* is 'done'.
C2_FreshRunDrainsGraph ==
  /\ (IsWorkflow /\ pc = "_run" /\ calls = 0) ~> (pc = "returned" \/ pc = "failed")
  /\ [](IsWorkflow /\ pc = "returned" /\ calls = 1 => \A n \in g.nodes : Done(n))

\* C2 as stated, for the runs that are given declared inputs only and in
\* which no step fails: the first _run of a constructed workflow ends by
\* returning, with every node 'done'; it does not stop while a node is
\* without status or 'running' unless the run of a step raised.
C2_FreshRunReturnsDrained ==
  IsWorkflow /\ calls = 1
    /\ DOMAIN inputs \subseteq {Bare(i.id) : i \in Range(d.inputs)} =>
    /\ pc = "failed" =>
         cur # <<>> /\ cur[1] \in DOMAIN g.type /\ g.type[cur[1]] = "step"
    /\ pc = "returned" => \A n \in g.nodes : Done(n)

\* C2 witness: a first _run has returned from a graph with a step in it.
C2_Witness ==
  /\ IsWorkflow /\ pc = "returned" /\ calls = 1
  /\ S \in g.nodes /\ Done(S) /\ Done(O)

\* The value section 4.6.3 composes for port n from its inbound edges, as a
\* test of a candidate value v: the val of a port without inbound edges,
\* what the one source delivers, or the sources' results by ascending pos.
Composed(n, v) ==
  LET pre == predecessors(g, n)
      src == CHOOSE q \in pre : TRUE
  IN IF pre = {} THEN v = Get(g.val, n)
     ELSE IF Cardinality(pre) = 1
       THEN IF g.type[src] = "port" THEN v = result[src]
            ELSE v = Get(result[src], LastSegment(n))
     ELSE /\ v.kind = "list"
          /\ Len(v.items) = Cardinality(pre)
          /\ \E order \in [1..Len(v.items) -> pre] :
               /\ \A q \in pre : \E i \in DOMAIN order : order[i] = q
               /\ \A i \in DOMAIN order : v.items[i] = result[order[i]]
               /\ \A i, j \in DOMAIN order :
                    i < j => edge_pos(order[i], n) <= edge_pos(order[j], n)

\* C3: when Workflow._run returns, the returned mapping has exactly the
\* bare names of the declared outputs as keys, and each maps to the result
\* of its output port node, which is the value composed for that port from
\* its inbound edges.
C3_OutputsProjected ==
  IsWorkflow /\ pc = "returned" =>
    /\ DOMAIN rv[1] = {Bare(out.id) : out \in Range(d.outputs)}
    /\ \A out \in Range(d.outputs) :
         /\ out.id \in DOMAIN result
         /\ rv[1][Bare(out.id)] = result[out.id]
         /\ Composed(out.id, result[out.id])

\* C3 witness: _run has returned an output that a single inbound edge
\* delivered.
C3_Witness ==
  /\ IsWorkflow /\ pc = "returned"
  /\ Cardinality(predecessors(g, O)) = 1
  /\ rv[1][Bare(O)] # Null

\* C4: when run has iterated over the k items of port p, the keys of the
\* returned mapping are the union of the keys of the k results, and each
\* key maps to the list of length k whose i-th entry is the i-th result's
\* value for the key, null when that result lacks it.
C4_ScatterAggregates ==
  pc = "done" /\ port # <<>> =>
    LET k == Len(inputs[port[1]].items)
    IN /\ Len(results) = k
       /\ calls = k
       /\ DOMAIN ret[1] = UNION {DOMAIN results[i] : i \in 1..k}
       /\ \A key \in DOMAIN ret[1] :
            /\ ret[1][key].kind = "list"
            /\ Len(ret[1][key].items) = k
            /\ \A i \in 1..k :
                 ret[1][key].items[i] =
                   IF key \in DOMAIN results[i] THEN results[i][key] ELSE Null

\* C4 witness: run has iterated over two or more items whose results do not
\* all have the same keys.
C4_Witness ==
  /\ pc = "done" /\ port # <<>>
  /\ Len(results) >= 2
  /\ \E i, j \in 1..Len(results) : DOMAIN results[i] # DOMAIN results[j]

\* The supplied keys that are declared input ports.
SuppliedPorts == DOMAIN inputs \cap {Bare(i.id) : i \in Range(d.inputs)}

DeclaredDepth(k) ==
  GetOr((CHOOSE i \in Range(d.inputs) : Bare(i.id) = k).depth, 0)

UnderNestedPorts == {k \in SuppliedPorts : depth(inputs[k]) < DeclaredDepth(k)}

OverNestedPorts == {k \in SuppliedPorts : depth(inputs[k]) > DeclaredDepth(k)}

\* C5: whenever every supplied declared port has its declared depth, run
\* calls _run exactly once, with the supplied inputs, and returns its
\* result; no error comes out of run's own depth test, whatever other keys
\* the mapping has.
C5_MatchingDepthsRunDirectly ==
  Dispatched /\ UnderNestedPorts = {} /\ OverNestedPorts = {} =>
    /\ port = <<>>
    /\ inps = inputs
    /\ calls <= 1
    /\ calls = 0 => pc = "_run"
    /\ pc = "done" => calls = 1

\* C6 as stated: whenever a supplied port is nested less deeply than
\* declared, run fails with 'Actual depth less than expected.' and never
\* calls _run, however many other ports are mismatched.
C6_UnderNestedAlwaysReported ==
  Dispatched /\ UnderNestedPorts # {} =>
    pc = "failed" /\ err = UnderNested /\ calls = 0

\* C6 amended: whenever a supplied port is nested less deeply than declared,
\* run fails without calling _run: with 'Actual depth less than expected.'
\* when it is the only mismatched port, with 'Depth mismatch on more than
\* one port.' when another supplied port is mismatched too.
C6_UnderNestedFails ==
  Dispatched /\ UnderNestedPorts # {} =>
    /\ pc = "failed"
    /\ calls = 0
    /\ ret = <<>>
    /\ err = IF Cardinality(UnderNestedPorts \cup OverNestedPorts) = 1
               THEN UnderNested ELSE ScatterAmbiguous

\* C6 witness: run has failed on one port nested too little and another
\* nested too deeply.
C6_Witness ==
  /\ Dispatched
  /\ UnderNestedPorts # {} /\ OverNestedPorts # {}
  /\ pc = "failed"

\* C7: whenever two or more supplied ports are nested more deeply than
\* declared, run fails with 'Depth mismatch on more than one port.' without
\* calling _run; run iterates only over exactly one port, the only
\* mismatched one, and every call of _run differs from the supplied inputs
\* in that port alone.
C7_ScatterOverOnePort ==
  /\ Dispatched /\ Cardinality(OverNestedPorts) >= 2 =>
       pc = "failed" /\ err = ScatterAmbiguous /\ calls = 0
  /\ Dispatched /\ port # <<>> =>
       /\ OverNestedPorts = {port[1]}
       /\ UnderNestedPorts = {}
       /\ DOMAIN inps = DOMAIN inputs
       /\ \A k \in DOMAIN inputs \ {port[1]} : inps[k] = inputs[k]
       /\ pc # "done" => inps[port[1]] \in Range(inputs[port[1]].items)

\* C7 witness: run has failed on two ports nested too deeply.
C7_Witness ==
  /\ Dispatched
  /\ Cardinality(OverNestedPorts) >= 2
  /\ err = ScatterAmbiguous

\* C8 as stated: every Workflow._run stores the given inputs and executes
\* the whole graph before it projects the outputs, so what it returns comes
\* from the inputs of that call: every supplied input port has the supplied
\* value as its result, and when run iterates over port p of a workflow
\* whose output #o is fed by #p alone, the i-th entry of the list returned
\* for o is the i-th item supplied for p.
C8_EveryRunUsesItsInputs ==
  /\ IsWorkflow /\ pc = "returned" =>
       \A k \in DOMAIN inps :
         Hash(k) \in g.nodes /\ predecessors(g, Hash(k)) = {} =>
           Hash(k) \in DOMAIN result /\ result[Hash(k)] = inps[k]
  /\ IsWorkflow /\ pc = "done" /\ port # <<>>
       /\ predecessors(g, O) = {Hash(port[1])} =>
       \A i \in 1..Len(inputs[port[1]].items) :
         ret[1][Bare(O)].items[i] = inputs[port[1]].items[i]

\* C9: when executing a step fails, the error leaves _run at once: the
\* failing step stays 'running', no status, result or output mapping is
\* written, and nothing happens in the workflow after an error.
C9_StepFailureAborts ==
  [][ /\ IsWorkflow => err = ""
      /\ pc = "execute" /\ err' # "" =>
           /\ pc' = "failed"
           /\ status' = status /\ result' = result /\ cur' = cur
           /\ self_result' = self_result
           /\ rv' = <<>> /\ ret' = <<>> ]_vars

\* C9 witness: a step has failed while other nodes were still waiting.
C9_Witness ==
  /\ IsWorkflow /\ pc = "failed" /\ err = "ExpressionFailure"
  /\ cur = <<S>> /\ Running(S)
  /\ \E n \in g.nodes : n \notin DOMAIN status
  /\ ret = <<>>

\* The pairs of E and of the compositions of its pairs.
RECURSIVE Closure(_)
Closure(E) ==
  LET E2 == E \cup {<<p[1][1], p[2][2]>> : p \in {q \in E \X E : q[1][2] = q[2][1]}}
  IN IF E2 = E THEN E ELSE Closure(E2)

\* The port-to-port dependencies a workflow document states: each link, and
\* each step output on each input of its step.
DocDepends(doc) ==
  {<<l.source, out.id>> : <<l, out>> \in
     {lo \in UNION {Range(o.links) \X {o} : o \in Range(doc.outputs)} : TRUE}}
  \cup UNION {
     {<<l.source, i.id>> : <<l, i>> \in
        {li \in UNION {Range(inp.links) \X {inp} : inp \in Range(st.inputs)} : TRUE}}
     \cup {<<i.id, o.id>> : <<i, o>> \in Range(st.inputs) \X Range(st.outputs)}
     : st \in Range(doc.steps)}

DocCyclic(doc) == \E e \in Closure(DocDepends(doc)) : e[1] = e[2]

GraphCyclic(gr) ==
  \E e \in Closure({<<f.src, f.dst>> : f \in gr.edges}) : e[1] = e[2]

\* C10: the constructor returns a Workflow only when the graph it built has
\* no cycle; for a document whose links make a port depend on itself it
\* fails with 'Workflow contains a cycle.', no object exists and no node is
\* ever given a status.
C10_OnlyAcyclicGraphsRun ==
  IsWorkflow /\ pc # "load" =>
    /\ DocCyclic(d) =>
         /\ pc = "failed" /\ err = CycleDetected
         /\ g = EmptyGraph /\ status = EmptyMap /\ calls = 0
    /\ err # CycleDetected => g.nodes # {} /\ ~GraphCyclic(g)

\* C10 witness: the constructor has rejected a document whose cycle runs
\* through the step and the workflow output.
C10_Witness ==
  /\ IsWorkflow /\ err = CycleDetected
  /\ Link(SR, <<>>) \in Range(d.outputs[1].links)
  /\ Link(O, <<>>) \in Range(d.steps[1].inputs[1].links)

\* The place of id n in the order in which a node's inbound edges are yielded.
EdgeIndex(n) == CHOOSE i \in 1..Len(edgeOrder) : edgeOrder[i] = n

\* seq lists the predecessors of n, each once, by ascending pos of the
\* inbound edge (0 when the edge has none), those of equal pos in the order
\* in which the graph yields the inbound edges.
ByPosThenIteration(seq, n) ==
  LET pos(q) == LET e == CHOOSE e \in g.edges : e.src = q /\ e.dst = n
                IN IF "pos" \in DOMAIN e.attrs THEN e.attrs["pos"] ELSE 0
  IN /\ Range(seq) = predecessors(g, n)
     /\ Len(seq) = Cardinality(predecessors(g, n))
     /\ \A i, j \in 1..Len(seq) :
          i < j => \/ pos(seq[i]) < pos(seq[j])
                   \/ /\ pos(seq[i]) = pos(seq[j])
                      /\ EdgeIndex(seq[i]) < EdgeIndex(seq[j])

\* A port node with more than one inbound edge.
MultiSourcePort(n) ==
  /\ n \in DOMAIN g.type /\ g.type[n] = "port"
  /\ Cardinality(predecessors(g, n)) > 1

\* C11: for every selected port node with more than one predecessor, the
\* val _make_val composed is the list of the predecessors' results ordered
\* ascending by the inbound edge's pos (absent pos counting as 0), with
\* predecessors of equal pos in the graph's inbound-edge iteration order.
C11_MultiSourceOrderedByPos ==
  \A n \in DOMAIN status :
    MultiSourcePort(n) =>
      /\ g.val[n].kind = "list"
      /\ \E seq \in [1..Len(g.val[n].items) -> predecessors(g, n)] :
           /\ ByPosThenIteration(seq, n)
           /\ \A i \in 1..Len(seq) : g.val[n].items[i] = result[seq[i]]

\* C11 witness: a port was composed from two sources whose pos order is the
\* reverse of the iteration order, and the sources' results differ.
C11_Witness ==
  /\ Done(O) /\ MultiSourcePort(O)
  /\ predecessors(g, O) = {X, Y}
  /\ edge_pos(X, O) > edge_pos(Y, O)
  /\ EdgeIndex(X) < EdgeIndex(Y)
  /\ result[X] # result[Y]
  /\ g.val[O] = ListV(<<result[Y], result[X]>>)

\* C11 second case, kept as a reachable state: equal pos, iteration order.
C11_TieState ==
  /\ Done(O) /\ predecessors(g, O) = {X, Y}
  /\ edge_pos(X, O) = edge_pos(Y, O)
  /\ EdgeIndex(Y) < EdgeIndex(X)
  /\ result[X] # result[Y]
  /\ g.val[O] = ListV(<<result[Y], result[X]>>)

\* The bare names of the declared workflow inputs.
DeclaredInputs == {Bare(i.id) : i \in Range(d.inputs)}

\* The declared value of input k, null when it declares none.
DeclaredValue(k) ==
  GetOr((CHOOSE i \in Range(d.inputs) : Bare(i.id) = k).value, Null)

\* The supplied keys are some, not all, of the declared inputs.
StrictSubsetSupplied ==
  DOMAIN inputs \subseteq DeclaredInputs /\ DOMAIN inputs # DeclaredInputs

\* C12: a workflow run with a strict subset of the declared inputs is
\* accepted: when the supplied ports have their declared depths, run calls
\* _run with the supplied mapping and set_inputs stores it, so that an error
\* can only come from executing a node; and every declared input that was
\* not supplied keeps its declared value (null when it declares none) as
\* its val, has it as its result, and hands it to the ports it feeds alone.
C12_MissingInputsFallBack ==
  IsWorkflow /\ Dispatched /\ StrictSubsetSupplied =>
    /\ UnderNestedPorts = {} /\ OverNestedPorts = {} =>
         /\ port = <<>> /\ inps = inputs
         /\ err = "" \/ status # EmptyMap
    /\ \A k \in DeclaredInputs \ DOMAIN inputs :
         /\ g.val[Hash(k)] = DeclaredValue(k)
         /\ Hash(k) \in DOMAIN result => result[Hash(k)] = DeclaredValue(k)
         /\ \A n \in DOMAIN result :
              predecessors(g, n) = {Hash(k)} => result[n] = DeclaredValue(k)

\* C12 witness: a run that was given #y only has returned, and #x handed
\* its declared value to the output it feeds.
C12_Witness ==
  /\ IsWorkflow /\ pc = "done"
  /\ DOMAIN inputs = {Bare(Y)}
  /\ predecessors(g, O) = {X}
  /\ DeclaredValue(Bare(X)) # Null
  /\ ret = <<[k \in {Bare(O)} |-> DeclaredValue(Bare(X))]>>

\* The supplied declared ports whose value is the empty sequence.
EmptySequencePorts == {k \in SuppliedPorts : inputs[k] = ListV(<<>>)}

\* The errors of run's depth test.
DepthErrors == {ScatterAmbiguous, UnderNested, ScatterUnsupported, "IndexError"}

\* C13: the depth of an empty sequence is 0, and an empty sequence supplied
\* for a declared port, whatever depth the port declares, goes to a single
\* _run unchanged: when only declared ports are supplied and every other
\* supplied port has its declared depth, run does not iterate, hands _run
\* the supplied mapping, calls it at most once and raises no depth error.
C13_EmptySequencePassesThrough ==
  /\ depth(ListV(<<>>)) = 0
  /\ ( /\ Dispatched
       /\ EmptySequencePorts # {}
       /\ DOMAIN inputs \subseteq {Bare(i.id) : i \in Range(d.inputs)}
       /\ (UnderNestedPorts \cup OverNestedPorts) \subseteq EmptySequencePorts )
     => /\ port = <<>>
        /\ inps = inputs
        /\ calls <= 1
        /\ err \notin DepthErrors

\* An empty sequence supplied for a port of declared depth 0 reached _run.
C13_DepthZeroState ==
  /\ Dispatched /\ pc = "done" /\ calls = 1
  /\ EmptySequencePorts # {}
  /\ \A k \in EmptySequencePorts : DeclaredDepth(k) = 0
  /\ inps = inputs

IsCLTool == d.class = "CommandLineTool"

\* The outputs of the document that have a glob to evaluate.
GlobOutputs == {out \in Range(d.outputs) : glob_of(out) # ""}

\* C14: in CLTool._run, a non-zero exit status fails the run with 'Process
\* failed.' before result.cwl.json is looked for or any glob is evaluated;
\* after exit status zero, when result.cwl.json is there no glob is ever
\* evaluated and what _run returns is the decoded file and nothing else;
\* a glob is evaluated only after exit status zero with the file absent.
C14_ResultFileBeforeGlobs ==
  IsCLTool /\ exit_status # <<>> =>
    /\ exit_status[1] # 0 =>
         /\ pc = "failed" /\ err = "Process failed."
         /\ globbed = <<>> /\ out_i = 0 /\ rv = <<>> /\ ret = <<>>
    /\ exit_status[1] = 0 /\ ResultFile \in job_dir.files =>
         /\ globbed = <<>> /\ out_i = 0 /\ tool_result = EmptyMap
         /\ pc # "outputs"
         /\ pc = "returned" =>
              /\ job_dir.text = <<"{}">> => rv = <<EmptyMap>>
              /\ job_dir.text = <<"{\"o\": 1}">> =>
                   rv = <<[k \in {Bare(O)} |-> IntV(1)]>>
    /\ globbed # <<>> => exit_status[1] = 0 /\ ResultFile \notin job_dir.files
    /\ pc = "outputs" => exit_status[1] = 0 /\ ResultFile \notin job_dir.files

\* C14 witness: _run has returned the decoded result.cwl.json although the
\* document has an output whose glob matches a file of the directory.
C14_Witness ==
  /\ IsCLTool /\ pc = "returned"
  /\ exit_status = <<0>>
  /\ job_dir.text = <<"{\"o\": 1}">>
  /\ \E out \in GlobOutputs : glob(job_dir, glob_of(out)) # {}
  /\ globbed = <<>>
  /\ rv = <<[k \in {Bare(O)} |-> IntV(1)]>>

\* The other branch, kept as a reachable state: without result.cwl.json the
\* globs were evaluated and their Files returned.
C14_GlobState ==
  /\ IsCLTool /\ pc = "returned"
  /\ ResultFile \notin job_dir.files
  /\ Len(globbed) = 2
  /\ DOMAIN rv[1] = {Bare(O), Bare(P)}

\* The reserved keys of section 4.1.
ReservedKeys ==
  {"inputs", "outputs", "links", "baseCmd", "arguments", "inputBindings",
   "schemaDefs", "steps"}

\* Tree t is tree o with, at every mapping node, the value of each key of
\* reserved that was no sequence replaced by the sequence of that one value,
\* and nothing else changed.
RECURSIVE Listified(_, _, _)
Listified(t, o, reserved) ==
  IF o.kind = "scalar" THEN t = o
  ELSE IF o.kind = "list"
    THEN /\ t.kind = "list" /\ Len(t.items) = Len(o.items)
         /\ \A i \in 1..Len(o.items) : Listified(t.items[i], o.items[i], reserved)
  ELSE /\ t.kind = "dict" /\ DOMAIN t.fields = DOMAIN o.fields
       /\ \A k \in DOMAIN o.fields :
            IF k \in reserved /\ o.fields[k].kind # "list"
              THEN /\ t.fields[k].kind = "list" /\ Len(t.fields[k].items) = 1
                   /\ Listified(t.fields[k].items[1], o.fields[k], reserved)
              ELSE Listified(t.fields[k], o.fields[k], reserved)

\* C15: after listify_properties, at every mapping node of the tree the
\* value of each key of {inputs, outputs, links, baseCmd, arguments,
\* inputBindings, schemaDefs, steps} is a sequence: the sequence it was, or
\* the one-element sequence of the value it was.
C15_ReservedKeysListified ==
  pc = "listify" /\ Len(history) >= 1 =>
    Listified(IF Len(history) = 1 THEN obj ELSE history[2], history[1], ReservedKeys)

\* What the code does hold to, kept as a reachable state: a tree whose
\* listed keys were wrapped at both levels while 'inputBindings' was not.
C15_PropsState ==
  /\ pc = "listify" /\ Len(history) = 1
  /\ obj # history[1]
  /\ Listified(obj, history[1], props)
  /\ ~Listified(obj, history[1], ReservedKeys)

\* C16: applying listify_properties to a tree it was applied to before
\* leaves the tree as it is.
C16_ListifyIdempotent ==
  pc = "listify" /\ Len(history) >= 2 => obj = history[Len(history)]

\* C16 witness: the first application changed the tree, at a mapping nested
\* in the value it wrapped, and the second has been made.
C16_Witness ==
  /\ pc = "listify" /\ Len(history) >= 2
  /\ history[1] # history[2]
  /\ obj = history[2]
  /\ \E k \in props :
       /\ history[1].kind = "dict" /\ k \in DOMAIN history[1].fields
       /\ history[1].fields[k].kind = "dict"
       /\ obj.fields[k].items[1] # history[1].fields[k]

\* execjs has come to its end, by return or by an exception.
ExecjsOver == pc = "evaluated" \/ (pc = "failed" /\ nodejs.state = "reaped")

\* C17: execjs is bounded by the timer.  A call that waits in communicate
\* comes to its end.  When term() finds the child running it ends it with a
\* returncode other than 0, and such a call never returns a value: it ends
\* with JavascriptException.  When the child ends by itself, what execjs
\* returns or raises follows from the child's own output alone, whether the
\* timer was cancelled or not; and no step of the Timer thread after the end
\* of execjs changes the outcome.
C17_TimerBoundsEvaluation ==
  /\ (pc = "communicate") ~> ExecjsOver
  /\ [][ tm = "expired" /\ tm' = "done" /\ nodejs.state = "running" =>
           /\ nodejs'.state = "exited" /\ nodejs'.returncode # 0
           /\ terminated' ]_vars
  /\ [](terminated =>
           /\ js_value = <<>> /\ pc # "evaluated"
           /\ ExecjsOver => err = "JavascriptException")
  /\ [](~terminated /\ ExecjsOver =>
           /\ \E e \in Exits :
                /\ nodejs = [e EXCEPT !.state = "reaped"]
                /\ IF e.returncode = 0 /\ e.stderrdata = "" /\ e.stdoutdata = "1"
                     THEN pc = "evaluated" /\ js_value = <<IntV(1)>>
                     ELSE pc = "failed" /\ js_value = <<>>)
  /\ [][ExecjsOver => ExecjsOver' /\ js_value' = js_value /\ err' = err]_vars

\* C17 witness: the timer expired while the child was running, term ended
\* the child although it had printed a value, and execjs failed.
C17_Witness ==
  /\ ExecjsOver
  /\ terminated /\ tm = "done"
  /\ nodejs.stdoutdata = "1"
  /\ err = "JavascriptException"

\* The other case, kept as a reachable state: the child ended by itself,
\* the timer had expired before it was cancelled, term ran after execjs
\* returned, and the value stands.
C17_LateTimerState ==
  /\ pc = "evaluated" /\ js_value = <<IntV(1)>>
  /\ ~terminated /\ tm = "done"

\* C18: in every step, a node without status stays so or becomes
\* 'running', a 'running' node stays so or becomes 'done', a 'done' node
\* stays 'done' and keeps its result; a result is written only when its
\* node goes from 'running' to 'done'.  So each node is selected once and
\* executed once at most.
C18_StatusWriteOnce ==
  [][ \A n \in g.nodes \cup DOMAIN status' \cup DOMAIN result' :
        /\ n \notin DOMAIN status =>
             n \notin DOMAIN status' \/ status'[n] = "running"
        /\ Running(n) =>
             n \in DOMAIN status' /\ status'[n] \in {"running", "done"}
        /\ Done(n) =>
             /\ n \in DOMAIN status' /\ status'[n] = "done"
             /\ n \in DOMAIN result /\ n \in DOMAIN result'
             /\ result'[n] = result[n]
        /\ n \in DOMAIN result' /\ ~Done(n) =>
             Running(n) /\ status'[n] = "done" ]_vars

\* C18 witness: a step and the ports around it have gone from no status
\* through 'running' to 'done', and the run has returned.
C18_Witness ==
  /\ IsWorkflow /\ pc = "returned"
  /\ Done(SA) /\ Done(S) /\ Done(SR)
  /\ DOMAIN result = DOMAIN status

\* The part of id after its last '/', the whole id when it has none.
AfterFinalSlash(id) ==
  CHOOSE t \in {SubSeq(id, i, Len(id)) : i \in 1..Len(id)} :
    /\ \A i \in 1..Len(t) : t[i] # "/"
    /\ \/ Len(t) = Len(id)
       \/ id[Len(id) - Len(t)] = "/"

\* C19: the val composed for a port node with exactly one predecessor, and
\* the node's result once it is done, is the predecessor's result when the
\* predecessor is a port, and the entry of the predecessor's result under
\* the part of the node's id after its last '/' when the predecessor is a
\* step, null when there is no such entry; the val the node had before,
\* from its declaration, does not count.
C19_SingleSourceDelivered ==
  \A n \in DOMAIN status :
    n \in DOMAIN g.type /\ g.type[n] = "port"
      /\ Cardinality(predecessors(g, n)) = 1 =>
      \E q \in predecessors(g, n) :
        /\ q \in DOMAIN g.type /\ q \in DOMAIN result
        /\ g.val[n] =
             IF g.type[q] = "port" THEN result[q]
             ELSE IF AfterFinalSlash(n) \in DOMAIN result[q]
               THEN result[q][AfterFinalSlash(n)]
             ELSE Null
        /\ Done(n) => result[n] = g.val[n]

\* C19 witness: a step output took the entry r of the step's result, and
\* the step input took the result of #x, not the value it declares.
C19_Witness ==
  /\ Done(SR) /\ Done(SA)
  /\ KeyR \in DOMAIN result[S]
  /\ result[SR] = result[S][KeyR] /\ result[SR] # Null
  /\ predecessors(g, SA) = {X}
  /\ result[SA] = result[X] /\ result[SA] # IntV(2)

\* A step output whose name the step's result lacks is null: kept as a
\* reachable state.
C19_MissingKeyState ==
  /\ Done(SR) /\ KeyR \notin DOMAIN result[S] /\ result[SR] = Null
  /\ \E k \in DOMAIN result[S] : result[S][k] # Null

\* C20: every node of the graph the constructor built carries type 'port'
\* or 'step', whatever the sources of the links name, and the node the
\* scheduler has selected is one execute can execute.
C20_EveryNodeTyped ==
  IsWorkflow /\ pc # "load" /\ err # CycleDetected =>
    /\ \A n \in g.nodes : n \in DOMAIN g.type /\ g.type[n] \in {"port", "step"}
    /\ cur # <<>> => cur[1] \in DOMAIN g.type

\* The sources of the links of the document that no input, output or step
\* port declares.
UndeclaredSources ==
  LET declared == {i.id : i \in Range(d.inputs)} \cup {o.id : o \in Range(d.outputs)}
                  \cup UNION {{i.id : i \in Range(st.inputs)}
                               \cup {o.id : o \in Range(st.outputs)} :
                              st \in Range(d.steps)}
      links == UNION {Range(o.links) : o \in Range(d.outputs)}
               \cup UNION {UNION {Range(i.links) : i \in Range(st.inputs)} :
                           st \in Range(d.steps)}
  IN {l.source : l \in links} \ declared

\* What the code does hold to, kept as a reachable state: the scheduler
\* selected the node of an undeclared source and execute raised KeyError.
C20_UntypedSelectedState ==
  /\ IsWorkflow /\ pc = "failed" /\ err = "KeyError"
  /\ cur # <<>> /\ cur[1] \in UndeclaredSources
  /\ cur[1] \in g.nodes /\ cur[1] \notin DOMAIN g.type
  /\ Running(cur[1])

====
